---- MODULE Spec2Model ----
(***************************************************************************)
(* new-component: the scaffold pipeline of src/index.js with the helpers   *)
(* of src/helpers.js and src/utils.js.                                     *)
(*                                                                         *)
(* Strings that the code inspects character by character (the component    *)
(* name, file names) are sequences of one-character strings.  A path is a  *)
(* sequence of segments, a segment is such a sequence; the path <<>> is    *)
(* the current working directory.                                          *)
(***************************************************************************)
EXTENDS Integers, Sequences, FiniteSets, TLC

\* Longest component name of the name-formatting specification.
MaxNameLen == 4

\* The longest template, in pieces, of the rendering specification.
MaxChunks == 3

\* ------------------------------------------------------------ characters

UpperChars == {"A", "B"}
LowerChars == {"a", "b"}
DigitChars == {"1"}

\* A name that was not supplied: program.args is empty, componentName is
\* undefined.  A one-element sequence whose element is no character.
Undefined == <<"<undefined>">>

\* String.prototype.toLowerCase on one character.
LowerChar(c) == CASE c = "A" -> "a" [] c = "B" -> "b" [] OTHER -> c

ToLowerCase(s) == [i \in 1..Len(s) |-> LowerChar(s[i])]

\* Mutant: the pattern is /([a-z])([A-Z])/g, a digit starts no boundary.
RECURSIVE ReplaceBoundariesLettersOnly(_)
ReplaceBoundariesLettersOnly(s) ==
  IF Len(s) = 0 THEN <<>>
  ELSE IF Len(s) >= 2 /\ s[1] \in LowerChars /\ s[2] \in UpperChars
       THEN <<s[1], "-", s[2]>> \o ReplaceBoundariesLettersOnly(SubSeq(s, 3, Len(s)))
       ELSE <<s[1]>> \o ReplaceBoundariesLettersOnly(SubSeq(s, 2, Len(s)))

\* s.replace(/([a-z0-9])([A-Z])/g, '$1-$2'): the scan goes left to right, a
\* match consumes both characters and the scan resumes after it.
RECURSIVE ReplaceBoundaries(_)
ReplaceBoundaries(s) ==
  IF Len(s) = 0 THEN <<>>
  ELSE IF /\ Len(s) >= 2
          /\ s[1] \in LowerChars \cup DigitChars
          /\ s[2] \in UpperChars
       THEN <<s[1], "-", s[2]>> \o ReplaceBoundaries(SubSeq(s, 3, Len(s)))
       ELSE <<s[1]>> \o ReplaceBoundaries(SubSeq(s, 2, Len(s)))

\* formatComponentName throws a TypeError (undefined.replace) exactly here.
FormatThrows(name, caseFormat) == caseFormat = "kebab" /\ name = Undefined

formatComponentName(name, caseFormat) ==
  IF caseFormat = "kebab" THEN ToLowerCase(ReplaceBoundaries(name)) ELSE name

\* /^[A-Z][a-zA-Z0-9]*$/.test(componentName)
IsPascalCase(name) ==
  /\ Len(name) >= 1
  /\ name[1] \in UpperChars
  /\ \A i \in 2..Len(name) : name[i] \in UpperChars \cup LowerChars \cup DigitChars

\* !componentName: undefined and the empty string are falsy.
IsFalsy(name) == name = Undefined \/ name = <<>>

\* A template literal `${x}`: undefined prints as the word undefined.
Interpolate(s) == IF s = Undefined THEN <<"undefined">> ELSE s

\* ------------------------------------------------------- configuration

\* What is at the path of an override file (.new-component-config.json).
AbsentFile == [state |-> "absent"]
InvalidJsonFile == [state |-> "invalid"]
UnreadableFile == [state |-> "unreadable"]
JsonFile(object) == [state |-> "json", value |-> object]

\* Mutant: only an error that carries a code other than ENOENT is thrown
\* again, a SyntaxError of JSON.parse is swallowed.
RequireOptionalThrowsOnCode(file) == file.state \in {"unreadable"}

\* requireOptional throws unless the read succeeds and parses, or fails with
\* ENOENT: a SyntaxError has no code, any other read error another code.
RequireOptionalThrows(file) == file.state \in {"invalid", "unreadable"}

\* requireOptional's value: the parsed object, or undefined after ENOENT,
\* which Object.assign skips as it does an object with no keys.
requireOptional(file) == IF file.state = "json" THEN file.value ELSE <<>>

SrcComponents == << <<"src">>, <<"components">> >>

defaults == [lang |-> "js", dir |-> SrcComponents, fileNameCase |-> "pascal"]

\* Mutant: the global overrides are assigned last.
ObjectAssignGlobalLast(base, globalOverrides, localOverrides) ==
  globalOverrides @@ localOverrides @@ base

\* Mutant: only the keys of the defaults are copied from the sources.
ObjectAssignKnownKeys(base, globalOverrides, localOverrides) ==
  [k \in DOMAIN base |-> (localOverrides @@ globalOverrides @@ base)[k]]

\* Object.assign({}, defaults, globalOverrides, localOverrides): every own
\* key of each source is copied, a later source over an earlier one.
ObjectAssign(base, globalOverrides, localOverrides) ==
  localOverrides @@ globalOverrides @@ base

\* The flags of the command line: a function from a subset of
\* {"lang", "dir", "case"} to the value given.
\* String.prototype.toLowerCase on the words a flag is given here.
LowerWord(w) ==
  CASE w = "TS" -> "ts" [] w = "JS" -> "js" [] w = "KEBAB" -> "kebab" [] OTHER -> w

\* An option declared with a pattern and a default: the value as typed when
\* the flag is given and matches /^(...)$/i, the default otherwise.
PatternOption(flags, key, words, default) ==
  IF key \in DOMAIN flags /\ LowerWord(flags[key]) \in words
  THEN flags[key]
  ELSE default

\* An option declared with a default only.
PlainOption(flags, key, default) ==
  IF key \in DOMAIN flags THEN flags[key] ELSE default

\* program.opts() after .parse(process.argv).
Options(flags, conf) ==
  [lang |-> PatternOption(flags, "lang", {"js", "ts"}, conf.lang),
   dir  |-> PlainOption(flags, "dir", conf.dir),
   case |-> PatternOption(flags, "case", {"pascal", "kebab"}, conf.fileNameCase)]

\* ---------------------------------------------------------------- plan

\* The directory a path is in.
Parent(path) == SubSeq(path, 1, Len(path) - 1)

\* prettier.format: an opaque, content-preserving wrapper of the text.
Prettify(text) == <<"prettier(">> \o text \o <<")">>

\* Mutant: the component file gets the index file's extension.
FileExtensionOfIndex(lang) == IF lang = "js" THEN "js" ELSE "ts"

FileExtension(lang) == IF lang = "js" THEN "jsx" ELSE "tsx"

IndexExtension(lang) == IF lang = "js" THEN "js" ELSE "ts"

ComponentDir(dir, fileName) == dir \o << Interpolate(fileName) >>

FilePath(componentDir, fileName, fileExtension) ==
  componentDir \o << Interpolate(fileName) \o <<".", fileExtension>> >>

\* Mutant: the index file is put beside the component directory.
IndexPathInRoot(componentDir, indexExtension) ==
  Parent(componentDir) \o << <<"index", ".", indexExtension>> >>

IndexPath(componentDir, indexExtension) ==
  componentDir \o << <<"index", ".", indexExtension>> >>

IndexTemplate(fileName) ==
  <<"export * from './">> \o Interpolate(fileName) \o <<"';">>

\* Lines 57-74 of index.js, for a name formatComponentName accepts.
Plan(name, opts) ==
  LET fileName == formatComponentName(name, opts.case)
      componentDir == ComponentDir(opts.dir, fileName)
  IN [fileName       |-> fileName,
      fileExtension  |-> FileExtension(opts.lang),
      indexExtension |-> IndexExtension(opts.lang),
      templateLang   |-> opts.lang,
      componentDir   |-> componentDir,
      filePath       |-> FilePath(componentDir, fileName, FileExtension(opts.lang)),
      indexPath      |-> IndexPath(componentDir, IndexExtension(opts.lang)),
      indexTemplate  |-> Prettify(IndexTemplate(fileName))]

\* ----------------------------------------------------------- templates

\* The token of the regular expression /COMPONENT_NAME/, character by
\* character.
PlaceholderToken ==
  <<"C", "O", "M", "P", "O", "N", "E", "N", "T", "_", "N", "A", "M", "E">>

\* The packaged templates, ./templates/<lang>.jsx: one for js, one for ts.
\* The text between the tokens is kept in pieces, not in characters.
TemplateFile(lang) ==
  IF lang = "js"
  THEN <<"const ">> \o PlaceholderToken \o <<" = () => <div />; export default ">>
       \o PlaceholderToken \o <<";">>
  ELSE <<"interface Props {} function ">> \o PlaceholderToken
       \o <<"({}: Props) {} export default ">> \o PlaceholderToken \o <<";">>

PackagedTemplates == [lang \in {"js", "ts"} |-> TemplateFile(lang)]

\* The regular expression matches at position i of the text.
MatchAt(text, i) ==
  /\ i + Len(PlaceholderToken) - 1 <= Len(text)
  /\ SubSeq(text, i, i + Len(PlaceholderToken) - 1) = PlaceholderToken

\* Mutant: the regular expression without its g flag; only the first match
\* is replaced.
RECURSIVE ReplaceFirstFrom(_, _, _)
ReplaceFirstFrom(text, i, replacement) ==
  IF i > Len(text) THEN <<>>
  ELSE IF MatchAt(text, i)
       THEN replacement \o SubSeq(text, i + Len(PlaceholderToken), Len(text))
       ELSE <<text[i]>> \o ReplaceFirstFrom(text, i + 1, replacement)

ReplaceFirstMatch(template, componentName) ==
  ReplaceFirstFrom(template, 1, componentName)

\* String.prototype.replace with a global regular expression: the text is
\* scanned from the left; at a match the replacement is emitted and the scan
\* goes on behind the match, elsewhere the character is copied.
RECURSIVE ReplaceFrom(_, _, _)
ReplaceFrom(text, i, replacement) ==
  IF i > Len(text) THEN <<>>
  ELSE IF MatchAt(text, i)
       THEN replacement \o ReplaceFrom(text, i + Len(PlaceholderToken), replacement)
       ELSE <<text[i]>> \o ReplaceFrom(text, i + 1, replacement)

\* template.replace(/COMPONENT_NAME/g, componentName); the name, validated
\* by then, holds no $ for replace to expand.
ReplacePlaceholder(template, componentName) ==
  ReplaceFrom(template, 1, componentName)

\* ---------------------------------------------------------- filesystem

DirNode == [kind |-> "dir", content |-> <<>>]
FileNode(content) == [kind |-> "file", content |-> content]

\* fs.existsSync
ExistsSync(files, path) == path \in DOMAIN files

IsDirectory(files, path) == path \in DOMAIN files /\ files[path].kind = "dir"

\* Mutant: mkdir with { recursive: true }; a directory that exists is no
\* error.
MkdirAllowedRecursive(files, path) ==
  /\ path \in DOMAIN files => files[path].kind = "dir"
  /\ IsDirectory(files, Parent(path))

\* fs.mkdir / fs.mkdirSync without { recursive: true }: EEXIST when the path
\* exists, ENOENT or ENOTDIR when its parent is no directory.
MkdirAllowed(files, path) ==
  /\ path \notin DOMAIN files
  /\ IsDirectory(files, Parent(path))

Mkdir(files, path) == (path :> DirNode) @@ files

\* fs.writeFile with the default flag 'w': creates the file or truncates an
\* existing one; EISDIR on a directory, ENOENT without the parent directory.
WriteAllowed(files, path) ==
  /\ IsDirectory(files, Parent(path))
  /\ path \in DOMAIN files => files[path].kind = "file"

WriteFile(files, path, content) == (path :> FileNode(content)) @@ files

\* ---------------------------------------------------------------- state

VARIABLES
  name,            \* program.args[0]: the component name, or Undefined
  globalFile,      \* what is at ~/.new-component-config.json
  localFile,       \* what is at <cwd>/.new-component-config.json
  flags,           \* the command line's option flags
  templates,       \* the packaged template files: lang -> text
  procs,           \* the invocations that run (process ids)
  fs,              \* the tree under the working directory: path -> node
  fs0,             \* the tree when the invocations started
  pc,              \* per invocation: the statement it is at
  globalOverrides, \* per invocation: getConfig's first read
  config,          \* per invocation: getConfig's result
  options,         \* per invocation: program.opts()
  plan,            \* per invocation: fileName, extensions and paths
  rendered,        \* per invocation: the component template after replace
  unhandled,       \* per invocation: a rejected promise nobody handles
  log,             \* per invocation: what it printed
  outcome,         \* per invocation: how it ended, "Running" before
  exitCode,        \* per invocation: the process's exit code, -1 before
  ops              \* per invocation: its fs calls so far

inputs == <<name, globalFile, localFile, flags, templates, procs, fs0>>

vars == <<name, globalFile, localFile, flags, templates, procs, fs, fs0, pc,
          globalOverrides, config, options, plan, rendered, unhandled, log,
          outcome, exitCode, ops>>

GlobalConfigPath == << <<"~">>, <<".new-component-config.json">> >>
LocalConfigPath == << <<".new-component-config.json">> >>
TemplatePath(lang) == << <<"templates">>, <<lang, ".jsx">> >>

\* What the failed half of a write may leave at the path.
PartialContent == <<"partial">>

\* One fs call of invocation p joins its trace.
Record(p, op, path, ok) ==
  ops' = [ops EXCEPT ![p] = Append(@, [op |-> op, path |-> path, ok |-> ok])]

\* The invocation goes on to the statement `next`, having printed `events`.
Goto(p, next, events) ==
  /\ pc' = [pc EXCEPT ![p] = next]
  /\ log' = [log EXCEPT ![p] = @ \o events]
  /\ UNCHANGED <<outcome, exitCode>>

\* The process of invocation p ends: process.exit(code), an uncaught
\* exception (code 1), or the end of the promise chain (code 0).
Terminate(p, result, code, events) ==
  /\ pc' = [pc EXCEPT ![p] = "exited"]
  /\ log' = [log EXCEPT ![p] = @ \o events]
  /\ outcome' = [outcome EXCEPT ![p] = result]
  /\ exitCode' = [exitCode EXCEPT ![p] = code]

\* .catch((err) => console.error(err)) ends the chain; the process exits 0.
Catch(p, result) == Terminate(p, result, 0, <<"console.error">>)

\* --------------------------------------------------------------- actions

\* getConfig, first await: requireOptional of the global override file.
ReadGlobalOverrides(p) ==
  /\ pc[p] = "getConfigGlobal"
  /\ Record(p, "readFile", GlobalConfigPath, globalFile.state \in {"json", "invalid"})
  /\ IF RequireOptionalThrows(globalFile)
     THEN /\ Terminate(p, "ConfigLoadError", 1, <<>>)
          /\ UNCHANGED globalOverrides
     ELSE /\ globalOverrides' = [globalOverrides EXCEPT ![p] = requireOptional(globalFile)]
          /\ Goto(p, "getConfigLocal", <<>>)
  /\ UNCHANGED <<inputs, fs, config, options, plan, rendered, unhandled>>

\* getConfig, second await and the merge.
ReadLocalOverrides(p) ==
  /\ pc[p] = "getConfigLocal"
  /\ Record(p, "readFile", LocalConfigPath, localFile.state \in {"json", "invalid"})
  /\ IF RequireOptionalThrows(localFile)
     THEN /\ Terminate(p, "ConfigLoadError", 1, <<>>)
          /\ UNCHANGED config
     ELSE /\ config' = [config EXCEPT ![p] =
                ObjectAssign(defaults, globalOverrides[p], requireOptional(localFile))]
          /\ Goto(p, "parseArgs", <<>>)
  /\ UNCHANGED <<inputs, fs, globalOverrides, options, plan, rendered, unhandled>>

\* The option declarations with the configuration as defaults, and parse.
ParseArgs(p) ==
  /\ pc[p] = "parseArgs"
  /\ options' = [options EXCEPT ![p] = Options(flags, config[p])]
  /\ Goto(p, "plan", <<>>)
  /\ UNCHANGED <<inputs, fs, globalOverrides, config, plan, rendered, unhandled, ops>>

\* The file name, the extensions, the paths, the index template, logIntro.
PlanPaths(p) ==
  /\ pc[p] = "plan"
  /\ IF FormatThrows(name, options[p].case)
     THEN /\ Terminate(p, "TypeError", 1, <<>>)
          /\ UNCHANGED plan
     ELSE /\ plan' = [plan EXCEPT ![p] = Plan(name, options[p])]
          /\ Goto(p, "validate", <<"intro">>)
  /\ UNCHANGED <<inputs, fs, globalOverrides, config, options, rendered, unhandled, ops>>

\* Mutant: a name that fails a check ends the process with exit code 1.
ValidateNameExitsOne(p) ==
  /\ pc[p] = "validate"
  /\ IF IsFalsy(name) \/ ~IsPascalCase(name)
     THEN Terminate(p, "ValidationError", 1, <<"error">>)
     ELSE Goto(p, "parentExists", <<>>)
  /\ UNCHANGED <<inputs, fs, globalOverrides, config, options, plan, rendered,
                 unhandled, ops>>

\* The two checks of the name, each ending in logError and process.exit(0).
ValidateName(p) ==
  /\ pc[p] = "validate"
  /\ IF IsFalsy(name) \/ ~IsPascalCase(name)
     THEN Terminate(p, "ValidationError", 0, <<"error">>)
     ELSE Goto(p, "parentExists", <<>>)
  /\ UNCHANGED <<inputs, fs, globalOverrides, config, options, plan, rendered,
                 unhandled, ops>>

\* createParentDirectoryIfNecessary: fs.existsSync(fullPathToParentDir).
CheckParentDirectory(p) ==
  /\ pc[p] = "parentExists"
  /\ Record(p, "exists", options[p].dir, TRUE)
  /\ IF ExistsSync(fs, options[p].dir)
     THEN Goto(p, "collision", <<>>)
     ELSE Goto(p, "parentMkdir", <<>>)
  /\ UNCHANGED <<inputs, fs, globalOverrides, config, options, plan, rendered, unhandled>>

\* createParentDirectoryIfNecessary: fs.mkdirSync(dir).  The call is not
\* awaited: when mkdirSync throws, the async function's promise is rejected,
\* nobody handles it, and index.js goes on to its next statement.
MakeParentDirectory(p) ==
  /\ pc[p] = "parentMkdir"
  /\ \E ioOk \in BOOLEAN :
       LET ok == ioOk /\ MkdirAllowed(fs, options[p].dir)
       IN /\ Record(p, "mkdir", options[p].dir, ok)
          /\ fs' = IF ok THEN Mkdir(fs, options[p].dir) ELSE fs
          /\ unhandled' = [unhandled EXCEPT ![p] = ~ok]
  /\ Goto(p, "collision", <<>>)
  /\ UNCHANGED <<inputs, globalOverrides, config, options, plan, rendered>>

\* Mutant: the collision check looks for <dir>/<componentName>, the
\* unformatted name.
CheckCollisionByName(p) ==
  /\ pc[p] = "collision"
  /\ Record(p, "exists", ComponentDir(options[p].dir, name), TRUE)
  /\ IF ExistsSync(fs, ComponentDir(options[p].dir, name))
     THEN Terminate(p, "CollisionError", 0, <<"error">>)
     ELSE Goto(p, "mkdir", <<>>)
  /\ UNCHANGED <<inputs, fs, globalOverrides, config, options, plan, rendered, unhandled>>

\* Mutant: the collision check looks for the component file, not for the
\* component directory.
CheckCollisionOnFile(p) ==
  /\ pc[p] = "collision"
  /\ Record(p, "exists", plan[p].filePath, TRUE)
  /\ IF ExistsSync(fs, plan[p].filePath)
     THEN Terminate(p, "CollisionError", 0, <<"error">>)
     ELSE Goto(p, "mkdir", <<>>)
  /\ UNCHANGED <<inputs, fs, globalOverrides, config, options, plan, rendered, unhandled>>

\* fs.existsSync(fullPathToComponentDir), logError and process.exit(0).
CheckCollision(p) ==
  /\ pc[p] = "collision"
  /\ Record(p, "exists", plan[p].componentDir, TRUE)
  /\ IF ExistsSync(fs, plan[p].componentDir)
     THEN Terminate(p, "CollisionError", 0, <<"error">>)
     ELSE Goto(p, "mkdir", <<>>)
  /\ UNCHANGED <<inputs, fs, globalOverrides, config, options, plan, rendered, unhandled>>

\* Mutant: mkDirPromise's callback resolves on success and does nothing on
\* an error, so after a failed mkdir the chain never settles.
MakeComponentDirectoryUnsettled(p) ==
  /\ pc[p] = "mkdir"
  /\ \E ioOk \in BOOLEAN :
       LET ok == ioOk /\ MkdirAllowed(fs, plan[p].componentDir)
       IN /\ Record(p, "mkdir", plan[p].componentDir, ok)
          /\ fs' = IF ok THEN Mkdir(fs, plan[p].componentDir) ELSE fs
          /\ IF ok THEN Goto(p, "readTemplate", <<>>) ELSE Goto(p, "pending", <<>>)
  /\ UNCHANGED <<inputs, globalOverrides, config, options, plan, rendered, unhandled>>

\* mkDirPromise(componentDir), the head of the promise chain.
MakeComponentDirectory(p) ==
  /\ pc[p] = "mkdir"
  /\ \E ioOk \in BOOLEAN :
       LET ok == ioOk /\ MkdirAllowed(fs, plan[p].componentDir)
       IN /\ Record(p, "mkdir", plan[p].componentDir, ok)
          /\ fs' = IF ok THEN Mkdir(fs, plan[p].componentDir) ELSE fs
          /\ IF ok THEN Goto(p, "readTemplate", <<>>) ELSE Catch(p, "MkdirError")
  /\ UNCHANGED <<inputs, globalOverrides, config, options, plan, rendered, unhandled>>

\* The unhandled rejection of createParentDirectoryIfNecessary's promise.  A
\* runtime that throws on unhandled rejections ends the process (code 1)
\* once the module's synchronous code is through, before any callback of the
\* chain runs: fs.mkdir is then in flight and may or may not take effect.  A
\* runtime that only warns lets the chain run (MakeComponentDirectory).
UnhandledRejection(p) ==
  /\ pc[p] = "mkdir"
  /\ unhandled[p]
  /\ \E ioOk \in BOOLEAN :
       LET ok == ioOk /\ MkdirAllowed(fs, plan[p].componentDir)
       IN /\ Record(p, "mkdir", plan[p].componentDir, ok)
          /\ fs' = IF ok THEN Mkdir(fs, plan[p].componentDir) ELSE fs
  /\ Terminate(p, "UnhandledRejection", 1, <<>>)
  /\ UNCHANGED <<inputs, globalOverrides, config, options, plan, rendered, unhandled>>

\* Mutant: a template that cannot be read does not stop the chain.
ReadTemplateNoStop(p) ==
  /\ pc[p] = "readTemplate"
  /\ \E ioOk \in BOOLEAN :
       LET ok == ioOk /\ plan[p].templateLang \in DOMAIN templates
       IN /\ Record(p, "readFile", TemplatePath(plan[p].templateLang), ok)
          /\ rendered' = [rendered EXCEPT ![p] =
                IF ok THEN ReplacePlaceholder(templates[plan[p].templateLang], name)
                ELSE <<>>]
          /\ Goto(p, "writeComponent", <<"Directory created.">>)
  /\ UNCHANGED <<inputs, fs, globalOverrides, config, options, plan, unhandled>>

\* readFilePromiseRelative(templatePath), logItemCompletion, replace.
ReadTemplate(p) ==
  /\ pc[p] = "readTemplate"
  /\ \E ioOk \in BOOLEAN :
       LET ok == ioOk /\ plan[p].templateLang \in DOMAIN templates
       IN /\ Record(p, "readFile", TemplatePath(plan[p].templateLang), ok)
          /\ IF ok
             THEN /\ rendered' = [rendered EXCEPT ![p] =
                        ReplacePlaceholder(templates[plan[p].templateLang], name)]
                  /\ Goto(p, "writeComponent", <<"Directory created.">>)
             ELSE /\ Catch(p, "TemplateLoadError")
                  /\ UNCHANGED rendered
  /\ UNCHANGED <<inputs, fs, globalOverrides, config, options, plan, unhandled>>

\* The outcome of fs.writeFile(path, content): written, or failed with the
\* tree as it was or with a file of partial content at the path.
WriteOutcome(files, path, content, ok, partial) ==
  IF ok THEN WriteFile(files, path, content)
  ELSE IF partial /\ WriteAllowed(files, path)
       THEN WriteFile(files, path, PartialContent)
       ELSE files

\* Mutant: a failed component write does not stop the chain.
WriteComponentFileNoStop(p) ==
  /\ pc[p] = "writeComponent"
  /\ \E ioOk, partial \in BOOLEAN :
       LET ok == ioOk /\ WriteAllowed(fs, plan[p].filePath)
       IN /\ Record(p, "writeFile", plan[p].filePath, ok)
          /\ fs' = WriteOutcome(fs, plan[p].filePath, Prettify(rendered[p]), ok, partial)
          /\ IF ok
             THEN Goto(p, "writeIndex", <<"Component built and saved to disk.">>)
             ELSE Goto(p, "writeIndex", <<>>)
  /\ UNCHANGED <<inputs, globalOverrides, config, options, plan, rendered, unhandled>>

\* writeFilePromise(filePath, await prettify(template)), logItemCompletion.
WriteComponentFile(p) ==
  /\ pc[p] = "writeComponent"
  /\ \E ioOk, partial \in BOOLEAN :
       LET ok == ioOk /\ WriteAllowed(fs, plan[p].filePath)
       IN /\ Record(p, "writeFile", plan[p].filePath, ok)
          /\ fs' = WriteOutcome(fs, plan[p].filePath, Prettify(rendered[p]), ok, partial)
          /\ IF ok
             THEN Goto(p, "writeIndex", <<"Component built and saved to disk.">>)
             ELSE Catch(p, "WriteError")
  /\ UNCHANGED <<inputs, globalOverrides, config, options, plan, rendered, unhandled>>

\* writeFilePromise(indexPath, await prettify(indexTemplate)), the last
\* logItemCompletion and logConclusion.
WriteIndexFile(p) ==
  /\ pc[p] = "writeIndex"
  /\ \E ioOk, partial \in BOOLEAN :
       LET ok == ioOk /\ WriteAllowed(fs, plan[p].indexPath)
       IN /\ Record(p, "writeFile", plan[p].indexPath, ok)
          /\ fs' = WriteOutcome(fs, plan[p].indexPath, Prettify(plan[p].indexTemplate), ok, partial)
          /\ IF ok
             THEN Terminate(p, "Done", 0,
                    <<"Index file built and saved to disk.", "conclusion">>)
             ELSE Catch(p, "WriteError")
  /\ UNCHANGED <<inputs, globalOverrides, config, options, plan, rendered, unhandled>>

Next ==
  \/ \E p \in procs : ReadGlobalOverrides(p)
  \/ \E p \in procs : ReadLocalOverrides(p)
  \/ \E p \in procs : ParseArgs(p)
  \/ \E p \in procs : PlanPaths(p)
  \/ \E p \in procs : ValidateName(p)
  \/ \E p \in procs : CheckParentDirectory(p)
  \/ \E p \in procs : MakeParentDirectory(p)
  \/ \E p \in procs : CheckCollision(p)
  \/ \E p \in procs : MakeComponentDirectory(p)
  \/ \E p \in procs : UnhandledRejection(p)
  \/ \E p \in procs : ReadTemplate(p)
  \/ \E p \in procs : WriteComponentFile(p)
  \/ \E p \in procs : WriteIndexFile(p)

\* ------------------------------------------------------- initial states

Lib == << <<"lib">> >>

OldContent == <<"old">>

\* What may be in the working directory before a run: the components
\* directory and its ancestor, earlier components under both name cases
\* with a file of theirs, a stray index file, another root directory.
SeedNodes ==
  (<<>> :> DirNode)
  @@ (<< <<"src">> >> :> DirNode)
  @@ (SrcComponents :> DirNode)
  @@ (SrcComponents \o << <<"A", "b">> >> :> DirNode)
  @@ (SrcComponents \o << <<"A", "b">>, <<"A", "b", ".", "jsx">> >> :> FileNode(OldContent))
  @@ (SrcComponents \o << <<"a", "b", "-", "b">> >> :> DirNode)
  @@ (SrcComponents \o << <<"index", ".", "js">> >> :> FileNode(OldContent))
  @@ (Lib :> DirNode)

\* A tree holds the parent directory of each of its entries.
ParentClosed(paths) ==
  \A q \in paths : q = <<>> \/ Parent(q) \in paths

InitialFileSystems ==
  { [q \in paths |-> SeedNodes[q]] :
      paths \in { t \in SUBSET DOMAIN SeedNodes : <<>> \in t /\ ParentClosed(t) } }

\* Names of the pipeline specification: none, empty, malformed, well-formed
\* with and without a lower-to-upper boundary.
SampleNames ==
  { Undefined, <<>>, <<"a", "B">>, <<"A", "-">>, <<"A", "b">>, <<"A", "b", "B">> }

\* Every string over the name characters, up to n characters.
NameChars == {"A", "B", "a", "1", "-"}

StringsUpTo(n) == UNION { [1..k -> NameChars] : k \in 0..n }

\* Every JSON object over the keys an override file may hold: the three
\* known ones and one the defaults do not have.
OverrideObjects ==
  { lang @@ dir @@ case @@ other :
      lang \in {<<>>, [lang |-> "ts"], [lang |-> "py"]},
      dir \in {<<>>, [dir |-> Lib]},
      case \in {<<>>, [fileNameCase |-> "kebab"], [fileNameCase |-> "snake"]},
      other \in {<<>>, [prettierConfig |-> "semi"]} }

OverrideFiles ==
  {AbsentFile, InvalidJsonFile, UnreadableFile} \cup { JsonFile(o) : o \in OverrideObjects }

SampleGlobalFiles ==
  { AbsentFile, InvalidJsonFile, JsonFile([lang |-> "ts"]),
    JsonFile([fileNameCase |-> "kebab", prettierConfig |-> "semi"]) }

SampleLocalFiles ==
  { AbsentFile, UnreadableFile, JsonFile([lang |-> "py"]), JsonFile([dir |-> Lib]),
    JsonFile([fileNameCase |-> "kebab"]) }

SampleFlags == { <<>>, [lang |-> "TS"], [case |-> "kebab"] }

InitWith(names, globalFiles, localFiles, flagSets, templateSets, fileSystems, processes) ==
  /\ name \in names
  /\ globalFile \in globalFiles
  /\ localFile \in localFiles
  /\ flags \in flagSets
  /\ templates \in templateSets
  /\ procs = processes
  /\ fs \in fileSystems
  /\ fs0 = fs
  /\ pc = [p \in processes |-> "getConfigGlobal"]
  /\ globalOverrides = [p \in processes |-> <<>>]
  /\ config = [p \in processes |-> <<>>]
  /\ options = [p \in processes |-> <<>>]
  /\ plan = [p \in processes |-> <<>>]
  /\ rendered = [p \in processes |-> <<>>]
  /\ unhandled = [p \in processes |-> FALSE]
  /\ log = [p \in processes |-> <<>>]
  /\ outcome = [p \in processes |-> "Running"]
  /\ exitCode = [p \in processes |-> -1]
  /\ ops = [p \in processes |-> <<>>]

\* One invocation; every sample input, every initial tree.
Init ==
  InitWith(SampleNames, SampleGlobalFiles, SampleLocalFiles, SampleFlags,
           {PackagedTemplates}, InitialFileSystems, {1})

Spec == Init /\ [][Next]_vars

\* The same runs, none of which stops while a step is left to take: the
\* synchronous code runs to its end, every fs call completes and calls back,
\* and the event loop runs every callback that is due.
SpecLive == Init /\ [][Next]_vars /\ WF_vars(Next)

\* Trees of the two narrower specifications: the empty working directory
\* (the components directory cannot be made) and one that holds src.
BareFileSystems ==
  { [q \in paths |-> SeedNodes[q]] : paths \in { {<<>>}, {<<>>, << <<"src">> >>} } }

\* One invocation; every pair of override files.
InitConfig ==
  InitWith({<<"A", "b">>, <<>>}, OverrideFiles, OverrideFiles, {<<>>},
           {PackagedTemplates}, BareFileSystems, {1})

SpecConfig == InitConfig /\ [][Next]_vars

\* One invocation; every name up to MaxNameLen characters, under both cases.
InitFormat ==
  InitWith(StringsUpTo(MaxNameLen) \cup {Undefined}, {AbsentFile, InvalidJsonFile},
           {AbsentFile, JsonFile([fileNameCase |-> "kebab"])}, {<<>>},
           {PackagedTemplates}, BareFileSystems, {1})

SpecFormat == InitFormat /\ [][Next]_vars

\* The texts a template file may hold: up to MaxChunks pieces, each the
\* token, a part of the token (COMPONENT_N, ME) or other text.
TemplateChunks ==
  { PlaceholderToken, SubSeq(PlaceholderToken, 1, 11), <<"M", "E">>, <<" x ">> }

RECURSIVE Flatten(_)
Flatten(pieces) ==
  IF Len(pieces) = 0 THEN <<>>
  ELSE pieces[1] \o Flatten(SubSeq(pieces, 2, Len(pieces)))

TemplateTexts ==
  { Flatten(pieces) : pieces \in UNION { [1..k -> TemplateChunks] : k \in 0..MaxChunks } }

RenderTemplates == { [lang \in {"js", "ts"} |-> text] : text \in TemplateTexts }

\* One invocation; every template text, a one-letter name, a longer one.
InitRender ==
  InitWith({<<"A">>, <<"A", "b">>, <<"a">>}, {AbsentFile},
           {AbsentFile, JsonFile([lang |-> "py"])}, {<<>>},
           RenderTemplates, BareFileSystems, {1})

SpecRender == InitRender /\ [][Next]_vars

\* A run and its re-run: the same command line, the same override files,
\* the same working directory; invocation 2 starts once invocation 1 has
\* ended and finds the tree as invocation 1 left it.
Turn(p) == \A q \in procs : q < p => pc[q] = "exited"

NextRerun ==
  \/ \E p \in procs : Turn(p) /\ ReadGlobalOverrides(p)
  \/ \E p \in procs : Turn(p) /\ ReadLocalOverrides(p)
  \/ \E p \in procs : Turn(p) /\ ParseArgs(p)
  \/ \E p \in procs : Turn(p) /\ PlanPaths(p)
  \/ \E p \in procs : Turn(p) /\ ValidateName(p)
  \/ \E p \in procs : Turn(p) /\ CheckParentDirectory(p)
  \/ \E p \in procs : Turn(p) /\ MakeParentDirectory(p)
  \/ \E p \in procs : Turn(p) /\ CheckCollision(p)
  \/ \E p \in procs : Turn(p) /\ MakeComponentDirectory(p)
  \/ \E p \in procs : Turn(p) /\ UnhandledRejection(p)
  \/ \E p \in procs : Turn(p) /\ ReadTemplate(p)
  \/ \E p \in procs : Turn(p) /\ WriteComponentFile(p)
  \/ \E p \in procs : Turn(p) /\ WriteIndexFile(p)

RerunNames == { <<"a", "B">>, <<"A", "b">>, <<"A", "b", "B">> }

RerunFileSystems ==
  BareFileSystems
  \cup { [q \in {<<>>, << <<"src">> >>, SrcComponents} |-> SeedNodes[q]] }

InitRerun ==
  InitWith(RerunNames, {AbsentFile, JsonFile([lang |-> "ts"])},
           {AbsentFile, JsonFile([lang |-> "py"]), JsonFile([fileNameCase |-> "kebab"])},
           {<<>>, [case |-> "kebab"]}, {PackagedTemplates}, RerunFileSystems, {1, 2})

SpecRerun == InitRerun /\ [][NextRerun]_vars

\* Two invocations with the same command line, the same override files and
\* the same working directory, their steps interleaved in every way.
InitTwo ==
  InitWith({<<"A", "b">>, <<"A", "b", "B">>}, {AbsentFile},
           {AbsentFile, JsonFile([fileNameCase |-> "kebab"])}, {<<>>},
           {PackagedTemplates}, RerunFileSystems, {1, 2})

SpecTwo == InitTwo /\ [][Next]_vars

\* ------------------------------------------------------------ properties

Exited(p) == pc[p] = "exited"

\* The invocation has its configuration, its plan.
Resolved(p) == DOMAIN config[p] # {}
Planned(p) == DOMAIN plan[p] # {}

ValidName == ~IsFalsy(name) /\ IsPascalCase(name)

\* An override file that exists and cannot be read or cannot be parsed.
Broken(file) == file.state \in {"invalid", "unreadable"}

ConfigLoads == ~Broken(globalFile) /\ ~Broken(localFile)

ConfigPaths == {GlobalConfigPath, LocalConfigPath}

\* The fs calls of invocation p on the project tree and the templates.
TreeOps(p) == { i \in 1..Len(ops[p]) : ops[p][i].path \notin ConfigPaths }

NoIoFailure(p) == \A i \in TreeOps(p) : ops[p][i].ok

Added == DOMAIN fs \ DOMAIN fs0

\* Every entry of the initial tree is still there, as it was.
Preserved == \A q \in DOMAIN fs0 : q \in DOMAIN fs /\ fs[q] = fs0[q]

\* The entries a run may add: the root, the component directory, two files.
Planted(p) ==
  IF Planned(p)
  THEN {options[p].dir, plan[p].componentDir, plan[p].filePath, plan[p].indexPath}
  ELSE {}

\* C1: in every state of every run no entry of the initial tree has been
\* modified, overwritten or removed, and every entry added since is the
\* configured root directory, the component directory, the component file
\* or the index file of an invocation.
C1_OnlyAddsNewEntries ==
  /\ Preserved
  /\ \A q \in Added : \E p \in procs : q \in Planted(p)

\* C1 witness: a run is Done over a tree that held an earlier component with
\* its file and a stray index file, and it had to make the root directory.
C1_Witness ==
  \E p \in procs :
    /\ outcome[p] = "Done"
    /\ SrcComponents \o << <<"A", "b">>, <<"A", "b", ".", "jsx">> >> \in DOMAIN fs0
    /\ SrcComponents \o << <<"index", ".", "js">> >> \in DOMAIN fs0
    /\ options[p].dir \in Added

\* C2 (as claimed): when the name is missing, empty or not PascalCase and the
\* configuration loads, a run that has ended ended in the validation
\* failure, and the tree is the initial tree.
C2_InvalidNameIsValidationFailure ==
  \A p \in procs :
    (~ValidName /\ ConfigLoads /\ Exited(p)) =>
      (outcome[p] = "ValidationError" /\ fs = fs0)

\* C3: when the planned component directory is in the initial tree, the tree
\* stays the initial tree in every state of the run (so the directory's
\* contents are unchanged), and a run with a valid name that has ended ended
\* in the collision error.
C3_CollisionHasNoEffect ==
  \A p \in procs :
    (Planned(p) /\ ExistsSync(fs0, plan[p].componentDir)) =>
      /\ fs = fs0
      /\ (Exited(p) /\ ValidName) => outcome[p] = "CollisionError"

\* C3 witness: a run ended in the collision error on a component directory
\* that holds a file.
C3_Witness ==
  \E p \in procs :
    /\ outcome[p] = "CollisionError"
    /\ \E q \in DOMAIN fs0 : Len(q) > 0 /\ Parent(q) = plan[p].componentDir

\* The file name the layout <dir>/<F>/<F>.<ext> asks for.
ExpectedExtensions(lang) ==
  IF lang = "js" THEN [file |-> "jsx", index |-> "js"] ELSE [file |-> "tsx", index |-> "ts"]

\* C4: for a valid name, lang in {js, ts} and case in {pascal, kebab}, when
\* the component directory is not in the initial tree and no fs call of the
\* run failed, a run that has ended is Done; the files it added are exactly
\* <dir>/<F>/<F>.<jsx|tsx> and <dir>/<F>/index.<js|ts> with F the formatted
\* name, the directories it added are among the root and <dir>/<F>; the
\* component file holds the language's template with the original name in
\* place of the token, the index file the re-export from './<F>'.
C4_CreatesExactlyTheTwoFiles ==
  \A p \in procs :
    ( /\ Exited(p) /\ Planned(p) /\ ValidName
      /\ options[p].lang \in {"js", "ts"}
      /\ options[p].case \in {"pascal", "kebab"}
      /\ ~ExistsSync(fs0, plan[p].componentDir)
      /\ NoIoFailure(p) ) =>
      LET F == formatComponentName(name, options[p].case)
          ext == ExpectedExtensions(options[p].lang)
          dirPath == options[p].dir \o <<F>>
          component == dirPath \o << F \o <<".", ext.file>> >>
          index == dirPath \o << <<"index", ".", ext.index>> >>
      IN /\ outcome[p] = "Done"
         /\ Preserved
         /\ { q \in Added : fs[q].kind = "file" } = {component, index}
         /\ { q \in Added : fs[q].kind = "dir" } \subseteq {options[p].dir, dirPath}
         /\ dirPath \in Added
         /\ fs[component].content =
              Prettify(ReplacePlaceholder(templates[options[p].lang], name))
         /\ fs[index].content =
              Prettify(Prettify(<<"export * from './">> \o F \o <<"';">>))

\* C4 witness: a Done run under the kebab case and lang ts whose formatted
\* name differs from the name.
C4_Witness ==
  \E p \in procs :
    /\ outcome[p] = "Done"
    /\ options[p].case = "kebab"
    /\ options[p].lang = "ts"
    /\ plan[p].fileName # name

\* The keys an override file sets.
Keys(file) == IF file.state = "json" THEN DOMAIN file.value ELSE {}

KnownKeys == {"lang", "dir", "fileNameCase"}

\* C5: for each of lang, dir and fileNameCase the resolved value is the local
\* override's if it sets the key, else the global override's if it sets the
\* key, else the default.
C5_LaterSourceWinsPerKey ==
  \A p \in procs :
    Resolved(p) =>
      \A k \in KnownKeys :
        config[p][k] = IF k \in Keys(localFile) THEN localFile.value[k]
                       ELSE IF k \in Keys(globalFile) THEN globalFile.value[k]
                       ELSE defaults[k]

\* C5 witness: both files set lang, to different values; only the global one
\* sets fileNameCase; neither sets dir.
C5_Witness ==
  \E p \in procs :
    /\ Resolved(p)
    /\ "lang" \in Keys(localFile) \cap Keys(globalFile)
    /\ localFile.value.lang # globalFile.value.lang
    /\ "fileNameCase" \in Keys(globalFile) \ Keys(localFile)
    /\ "dir" \notin Keys(globalFile) \cup Keys(localFile)

\* C6: when neither override file is unparsable or unreadable, the run never
\* ends in a configuration error and an absent file adds no key to the
\* resolved configuration; when one of them is, the run never gets past
\* getConfig, its only fs calls are the reads of the override files, the
\* tree is the initial tree, and once ended it ended in the configuration
\* error.
C6_AbsentIsEmptyAndBrokenIsFatal ==
  \A p \in procs :
    IF ConfigLoads
    THEN /\ outcome[p] # "ConfigLoadError"
         /\ pc[p] \notin {"getConfigGlobal", "getConfigLocal"} => Resolved(p)
         /\ Resolved(p) =>
              DOMAIN config[p] = DOMAIN defaults \cup Keys(globalFile) \cup Keys(localFile)
    ELSE /\ pc[p] \in {"getConfigGlobal", "getConfigLocal", "exited"}
         /\ TreeOps(p) = {}
         /\ fs = fs0
         /\ ~Resolved(p)
         /\ Exited(p) => outcome[p] = "ConfigLoadError"

\* C6 witness: the global file is absent, the local one is not valid JSON,
\* and the run has ended in the configuration error.
C6_Witness ==
  \E p \in procs :
    /\ globalFile = AbsentFile
    /\ localFile = InvalidJsonFile
    /\ outcome[p] = "ConfigLoadError"

\* C7 (as claimed): a resolved configuration has lang in {js, ts} and
\* fileNameCase in {pascal, kebab}, and with no flag on the command line no
\* other value reaches the plan.
C7_ResolvedConfigWithinDomains ==
  \A p \in procs :
    /\ Resolved(p) =>
         /\ config[p].lang \in {"js", "ts"}
         /\ config[p].fileNameCase \in {"pascal", "kebab"}
    /\ (Planned(p) /\ flags = <<>>) =>
         /\ plan[p].templateLang \in {"js", "ts"}
         /\ options[p].case \in {"pascal", "kebab"}

\* C8 (as claimed): the resolved configuration's keys are exactly lang, dir
\* and fileNameCase.
C8_KeySetIsTheThreeFields ==
  \A p \in procs : Resolved(p) => DOMAIN config[p] = KnownKeys

\* An override object without its keys other than the three known ones.
KnownPart(object) == [k \in DOMAIN object \cap KnownKeys |-> object[k]]

\* C8 (amended): every key of either override object is copied into the
\* resolved configuration, and the resolved lang, dir and fileNameCase are
\* those resolved from the two objects with their other keys removed.
C8_UnknownKeysCopiedNotInterfering ==
  \A p \in procs :
    Resolved(p) =>
      /\ DOMAIN config[p] = KnownKeys \cup Keys(globalFile) \cup Keys(localFile)
      /\ \A k \in KnownKeys :
           config[p][k] = ObjectAssign(defaults,
                                       KnownPart(requireOptional(globalFile)),
                                       KnownPart(requireOptional(localFile)))[k]

\* C8 witness: the local file sets lang and a key that is none of the three,
\* and the resolved configuration holds that key.
C8_Witness ==
  \E p \in procs :
    /\ Resolved(p)
    /\ {"lang", "prettierConfig"} \subseteq Keys(localFile)
    /\ "prettierConfig" \in DOMAIN config[p]

\* The kebab form, position by position: each character lowercased, and a
\* hyphen after position i exactly when a lowercase letter or digit at i is
\* followed by an uppercase letter at i + 1.
RECURSIVE KebabFrom(_, _)
KebabFrom(s, i) ==
  IF i > Len(s) THEN <<>>
  ELSE <<LowerChar(s[i])>>
       \o (IF /\ i < Len(s)
              /\ s[i] \in LowerChars \cup DigitChars
              /\ s[i + 1] \in UpperChars
           THEN <<"-">> ELSE <<>>)
       \o KebabFrom(s, i + 1)

IsWrite(p, i, path) == ops[p][i].op = "writeFile" /\ ops[p][i].path = path

WroteOk(p, path) == \E i \in 1..Len(ops[p]) : IsWrite(p, i, path) /\ ops[p][i].ok

Printed(p, event) == \E i \in 1..Len(log[p]) : log[p][i] = event

ComponentBuilt == "Component built and saved to disk."
IndexBuilt == "Index file built and saved to disk."

\* C10: a write of the index file is preceded by a successful write of the
\* component file; each completion event is printed exactly when its write
\* has succeeded, the component's before the index write is started, and the
\* events appear in the order component, index, conclusion.
C10_ComponentBeforeIndex ==
  \A p \in procs :
    /\ \A i \in 1..Len(ops[p]) :
         IsWrite(p, i, plan[p].indexPath) =>
           /\ \E j \in 1..(i - 1) : IsWrite(p, j, plan[p].filePath) /\ ops[p][j].ok
           /\ Printed(p, ComponentBuilt)
    /\ Printed(p, ComponentBuilt) <=> (Planned(p) /\ WroteOk(p, plan[p].filePath))
    /\ Printed(p, IndexBuilt) <=> (Planned(p) /\ WroteOk(p, plan[p].indexPath))
    /\ \A i, j \in 1..Len(log[p]) :
         /\ (log[p][i] = ComponentBuilt /\ log[p][j] = IndexBuilt) => i < j
         /\ (log[p][i] = IndexBuilt /\ log[p][j] = "conclusion") => i < j
         /\ (log[p][i] = log[p][j] /\ log[p][i] \in {ComponentBuilt, IndexBuilt}) => i = j

\* C10 witness: the component file was written and reported, and the write
\* of the index file then failed.
C10_Witness ==
  \E p \in procs :
    /\ outcome[p] = "WriteError"
    /\ Printed(p, ComponentBuilt)
    /\ \E i \in 1..Len(ops[p]) : IsWrite(p, i, plan[p].indexPath) /\ ~ops[p][i].ok

\* fs call i of invocation p creates: mkdirSync, mkdir or writeFile.
IsCreation(p, i) == ops[p][i].op \in {"mkdir", "writeFile"}

\* C11 (as claimed): once the creation of the root directory, the creation
\* of the component directory or the write of either file has failed, the
\* invocation makes no further fs call (no collision check, no directory
\* creation, no file write), and no creation is attempted twice.
C11_FailStop ==
  \A p \in procs :
    /\ \A i \in 1..Len(ops[p]) :
         (IsCreation(p, i) /\ ~ops[p][i].ok) => i = Len(ops[p])
    /\ \A i, j \in 1..Len(ops[p]) :
         (IsCreation(p, i) /\ IsCreation(p, j) /\ ops[p][i].path = ops[p][j].path) => i = j

\* fs call i of invocation p is a read of a template that failed.
IsTemplateLoadFailure(p, i) ==
  /\ ops[p][i].op = "readFile"
  /\ ops[p][i].path \notin ConfigPaths
  /\ ~ops[p][i].ok

AddedFiles == { q \in Added : fs[q].kind = "file" }

\* C12 (as claimed): a run that ended in the template-load failure has
\* performed no filesystem write: no directory created, no file written.
C12_TemplateFailureBeforeAnyWrite ==
  \A p \in procs : outcome[p] = "TemplateLoadError" => fs = fs0

\* C12 (amended): a failed read of the template is the invocation's last fs
\* call and ends it in the template-load failure; no write of a file was
\* attempted and the tree holds no new file; the component directory has
\* been created before the read and stays, as does the root directory when
\* the run had to make it, and nothing else was added or changed.
C12_TemplateFailureBeforeAnyFile ==
  \A p \in procs :
    \A i \in 1..Len(ops[p]) :
      IsTemplateLoadFailure(p, i) =>
        /\ i = Len(ops[p])
        /\ outcome[p] = "TemplateLoadError"
        /\ \A j \in 1..Len(ops[p]) : ops[p][j].op # "writeFile"
        /\ AddedFiles = {}
        /\ plan[p].componentDir \in Added
        /\ Added \subseteq {options[p].dir, plan[p].componentDir}
        /\ Preserved

\* C12 witness: the configured lang has no template; the run made the root
\* and the component directory and ended in the template-load failure.
C12_Witness ==
  \E p \in procs :
    /\ outcome[p] = "TemplateLoadError"
    /\ options[p].lang \notin DOMAIN templates
    /\ Added = {options[p].dir, plan[p].componentDir}
    /\ options[p].dir # plan[p].componentDir

\* The phase of the pipeline invocation p is in, by the statement it is at:
\* getConfig is ResolvingConfig, the option parse and lines 57-81 Planning,
\* the two name checks ValidatingName, the root directory and the existence
\* check CheckingCollision, the links of the chain the phases after it.
Phase(p) ==
  CASE pc[p] \in {"getConfigGlobal", "getConfigLocal"} -> "ResolvingConfig"
    [] pc[p] \in {"parseArgs", "plan"} -> "Planning"
    [] pc[p] = "validate" -> "ValidatingName"
    [] pc[p] \in {"parentExists", "parentMkdir", "collision"} -> "CheckingCollision"
    [] pc[p] = "mkdir" -> "CreatingDirectory"
    [] pc[p] = "readTemplate" -> "RenderingTemplates"
    [] pc[p] = "writeComponent" -> "WritingComponentFile"
    [] pc[p] = "writeIndex" -> "WritingIndexFile"
    [] pc[p] = "exited" /\ outcome[p] = "Done" -> "Done"
    [] OTHER -> "Failed"

ClaimedOrder ==
  <<"Idle", "ValidatingName", "ResolvingConfig", "Planning", "CheckingCollision",
    "CreatingDirectory", "RenderingTemplates", "WritingComponentFile",
    "WritingIndexFile", "Done">>

ClaimedFailedFrom ==
  {"ValidatingName", "ResolvingConfig", "CheckingCollision", "CreatingDirectory",
   "WritingComponentFile", "WritingIndexFile"}

\* A step from phase a to phase b that the claimed state machine has.
ClaimedStep(a, b) ==
  \/ a = b
  \/ \E i \in 1..(Len(ClaimedOrder) - 1) : a = ClaimedOrder[i] /\ b = ClaimedOrder[i + 1]
  \/ b = "Failed" /\ a \in ClaimedFailedFrom

\* C13 (as claimed): every step of a run stays in its phase, goes to the
\* next phase of Idle, ValidatingName, ResolvingConfig, Planning,
\* CheckingCollision, CreatingDirectory, RenderingTemplates,
\* WritingComponentFile, WritingIndexFile, Done (so the name is validated
\* before it is formatted into paths), or enters Failed from ValidatingName,
\* ResolvingConfig, CheckingCollision, CreatingDirectory,
\* WritingComponentFile or WritingIndexFile.
C13_PhaseOrder ==
  [][\A p \in procs : ClaimedStep(Phase(p), Phase(p)')]_vars

\* Invocation p failed after it had created the component directory: the
\* template could not be read, or a write of one of the two files failed.
FailedAfterDirectory(p) == outcome[p] \in {"TemplateLoadError", "WriteError"}

BeforeCreating == {"getConfigGlobal", "getConfigLocal", "parseArgs", "plan",
                   "validate", "parentExists", "collision", "exited"}

\* C14: once a run has failed after creating the component directory, the
\* directory is in the tree, as is each file the run wrote, with the content
\* it wrote; the run after it, with the same name and configuration,
\* attempts no creation of a directory or file at any point, never gets
\* past the collision check, and once ended has ended in the collision
\* error.
C14_NoRollbackBlocksRerun ==
  \A p, q \in procs :
    (p < q /\ FailedAfterDirectory(p)) =>
      /\ IsDirectory(fs, plan[p].componentDir)
      /\ WroteOk(p, plan[p].filePath) =>
           fs[plan[p].filePath] = FileNode(Prettify(rendered[p]))
      /\ \A i \in 1..Len(ops[p]) :
           (IsCreation(p, i) /\ ops[p][i].ok) => ops[p][i].path \in DOMAIN fs
      /\ \A i \in 1..Len(ops[q]) : ~IsCreation(q, i)
      /\ pc[q] \in BeforeCreating
      /\ Exited(q) => outcome[q] = "CollisionError"

\* C14 witness: the first run could not read its template and left an empty
\* component directory; the re-run has ended in the collision error.
C14_Witness ==
  /\ procs = {1, 2}
  /\ outcome[1] = "TemplateLoadError"
  /\ outcome[2] = "CollisionError"
  /\ \A q \in DOMAIN fs : q = <<>> \/ Parent(q) # plan[1].componentDir

\* The positions of the text at which the token stands.
Occurrences(text) == { i \in 1..Len(text) : MatchAt(text, i) }

\* Position i of the text lies within an occurrence of the token.
InToken(text, i) ==
  \E j \in Occurrences(text) : j <= i /\ i < j + Len(PlaceholderToken)

\* Where position i of the template is in the output, each token before it
\* having become n characters.
Shifted(text, i, n) ==
  i + Cardinality({ j \in Occurrences(text) : j < i }) * (n - Len(PlaceholderToken))

\* The output is the template with the name at each position where the
\* token stood and every other character as it was.
NameWhereTokenStood(text, out, componentName) ==
  LET n == Len(componentName)
  IN /\ Len(out) = Shifted(text, Len(text) + 1, n) - 1
     /\ \A i \in Occurrences(text) :
          SubSeq(out, Shifted(text, i, n), Shifted(text, i, n) + n - 1) = componentName
     /\ \A i \in 1..Len(text) :
          ~InToken(text, i) => out[Shifted(text, i, n)] = text[i]

\* The template of invocation p has been read and rendered.
Rendered(p) == Printed(p, "Directory created.")

TemplateOf(p) == templates[plan[p].templateLang]

\* C15 (as claimed): for every template and every valid PascalCase name the
\* rendered output holds no occurrence of the token and has the name at each
\* position where the token stood.
C15_NoTokenLeft ==
  \A p \in procs :
    (Rendered(p) /\ ValidName) =>
      /\ Occurrences(rendered[p]) = {}
      /\ NameWhereTokenStood(TemplateOf(p), rendered[p], name)

\* Every underscore of the text is part of an occurrence of the token.
UnderscoreOnlyInTokens(text) ==
  \A i \in 1..Len(text) : text[i] = "_" => InToken(text, i)

\* C15 (amended): for every template and every valid PascalCase name the
\* rendered output has the name at each position where the token stood and
\* the rest of the template unchanged; it holds no occurrence of the token
\* when the template has no underscore outside its tokens.
C15_EveryTokenReplaced ==
  \A p \in procs :
    (Rendered(p) /\ ValidName) =>
      /\ NameWhereTokenStood(TemplateOf(p), rendered[p], name)
      /\ UnderscoreOnlyInTokens(TemplateOf(p)) => Occurrences(rendered[p]) = {}

\* C15 witness: a template with the token three times, two of them side by
\* side, rendered with a two-letter name; no token is left.
C15_Witness ==
  \E p \in procs :
    /\ Rendered(p)
    /\ Len(name) = 2
    /\ Cardinality(Occurrences(TemplateOf(p))) = 3
    /\ \E i \in Occurrences(TemplateOf(p)) :
         i + Len(PlaceholderToken) \in Occurrences(TemplateOf(p))
    /\ Occurrences(rendered[p]) = {}

\* fs call i of invocation p is the mkdirSync of the root directory.
IsRootMkdir(p, i) == ops[p][i].op = "mkdir" /\ ops[p][i].path = options[p].dir

\* createParentDirectoryIfNecessary has returned or thrown.
StepTwoDone(p) ==
  /\ pc[p] # "parentMkdir"
  /\ \E i \in 1..Len(ops[p]) : ops[p][i].op = "exists" /\ ops[p][i].path = options[p].dir

\* The system refused a mkdirSync of the root that the tree allowed.
RootMkdirRefused(p) ==
  /\ MkdirAllowed(fs0, options[p].dir)
  /\ \E i \in 1..Len(ops[p]) : IsRootMkdir(p, i) /\ ~ops[p][i].ok

\* C16 (as claimed): after step 2, a root directory that was not in the
\* initial tree is in the tree, also when its own parent directory was not
\* there either (unless the system refused a mkdir the tree allowed); for a
\* root that was in the initial tree no mkdir was attempted, no error was
\* raised, and at the end of step 2 the tree is the initial tree.
C16_RootExistsAfterStepTwo ==
  \A p \in procs :
    StepTwoDone(p) =>
      IF ExistsSync(fs0, options[p].dir)
      THEN /\ \A i \in 1..Len(ops[p]) : ~IsRootMkdir(p, i)
           /\ ~unhandled[p]
           /\ pc[p] = "collision" => fs = fs0
      ELSE ExistsSync(fs, options[p].dir) \/ RootMkdirRefused(p)

\* Every invocation has ended, Done or failed.
Terminated == \A p \in procs : Exited(p)

\* C17: every run that keeps taking the steps it can take comes to a state
\* in which the invocation has ended, Done or failed, and from then on it
\* stays ended and no step of the pipeline can be taken.
C17_EveryRunTerminates == <>[](Terminated /\ ~ENABLED Next)

\* C17 witness: a run has ended Done after nine fs calls, the longest
\* there is, and no step can be taken.
C17_Witness ==
  \E p \in procs :
    /\ outcome[p] = "Done"
    /\ Len(ops[p]) = 9
    /\ ~ENABLED Next

\* C18: a run that ended in the validation error or in the collision error
\* has exit code 0, and so has a run that ended Done.
C18_ErrorsExitZeroLikeDone ==
  \A p \in procs :
    outcome[p] \in {"ValidationError", "CollisionError", "Done"} => exitCode[p] = 0

\* C18 witness: no name was given; the run reported it and ended with exit
\* code 0.
C18_Witness ==
  \E p \in procs :
    /\ name = Undefined
    /\ outcome[p] = "ValidationError"
    /\ Printed(p, "error")
    /\ exitCode[p] = 0

\* fs call i of invocation p is its mkdir of the component directory.
IsComponentMkdir(p, i) ==
  /\ Planned(p)
  /\ ops[p][i].op = "mkdir"
  /\ ops[p][i].path = plan[p].componentDir

\* Invocation p created the component directory.
MadeDirectory(p) ==
  \E i \in 1..Len(ops[p]) : IsComponentMkdir(p, i) /\ ops[p][i].ok

\* Invocation p attempted a write of a file.
AttemptedWrite(p) == \E i \in 1..Len(ops[p]) : ops[p][i].op = "writeFile"

\* C19: of two invocations with the same name and configuration, however
\* their steps interleave, at most one creates the component directory and
\* only that one attempts a write; an invocation whose mkdir of the
\* component directory failed has ended at that step and has attempted no
\* write; no path is written by both, and a file an invocation wrote holds
\* what that invocation wrote.
C19_OneCreatorOneWriter ==
  /\ Cardinality({ p \in procs : MadeDirectory(p) }) <= 1
  /\ \A p \in procs :
       /\ AttemptedWrite(p) => MadeDirectory(p)
       /\ (\E i \in 1..Len(ops[p]) : IsComponentMkdir(p, i) /\ ~ops[p][i].ok) =>
            /\ Exited(p)
            /\ outcome[p] \in {"MkdirError", "UnhandledRejection"}
            /\ ~AttemptedWrite(p)
       /\ (Planned(p) /\ WroteOk(p, plan[p].filePath)) =>
            fs[plan[p].filePath] = FileNode(Prettify(rendered[p]))
       /\ (Planned(p) /\ WroteOk(p, plan[p].indexPath)) =>
            fs[plan[p].indexPath] = FileNode(Prettify(plan[p].indexTemplate))
  /\ \A p, q \in procs :
       \A i \in 1..Len(ops[p]), j \in 1..Len(ops[q]) :
         (p # q /\ ops[p][i].op = "writeFile" /\ ops[q][j].op = "writeFile") =>
           ops[p][i].path # ops[q][j].path

\* C19 witness: both invocations passed the collision check before either
\* created the directory; one created it and is Done, the other's mkdir
\* failed and it has written nothing.
C19_Witness ==
  \E p, q \in procs :
    /\ p # q
    /\ outcome[p] = "Done"
    /\ outcome[q] = "MkdirError"
    /\ \A r \in {p, q} :
         \E i \in 1..Len(ops[r]) :
           /\ ops[r][i].op = "exists"
           /\ ops[r][i].path = plan[r].componentDir
    /\ ~AttemptedWrite(q)

====
